---- MODULE Spec2Model ----
(***************************************************************************)
(* Model of the EVE Online trading tool (cringevictim/eveonline-trading-   *)
(* tool): the distance resolver with its two caches (pathfinder.py,        *)
(* database.py), the ranking step that joins candidates with distances     *)
(* (market.py find_trades), the scan orchestrator with the web handlers    *)
(* that start and stop it (market.py scan_group, app.py) and the four      *)
(* order-book matching strategies (market.py _find_*_trades).              *)
(*                                                                         *)
(* Six layers share the module, each with its own specification:          *)
(*   Spec, SpecRun  the distance resolver and the ranking step, with and   *)
(*                  without restarts of the process                        *)
(*   SpecBatch      the resolver under the find_trades calls of two items  *)
(*                  of one batch                                           *)
(*   SpecScan       the scan orchestrator and the handlers start/stop/clear*)
(*   SpecMatch      the matching strategies, applied to bounded listings   *)
(*   SpecSingle     the same, applied to one sell and one buy order        *)
(*   SpecWalk       the order-book walk of the instant strategy, one       *)
(*                  iteration of its loop at a time                        *)
(*   SpecRows       the trips, travel cost and profit per jump of a stored *)
(*                  trade                                                  *)
(*   SpecSessions   the connections the items of one batch hold to the     *)
(*                  route service                                          *)
(***************************************************************************)
EXTENDS Integers, Sequences, FiniteSets, TLC

(***************************************************************************)
(* Bounds of the model.                                                    *)
(***************************************************************************)
\* largest jump count the route service answers
MaxJumps == 1
\* largest number of candidates one find_trades call joins with distances
MaxCands == 2
\* largest number of items of a batch that are in find_trades at a time
MaxFlight == 2
\* largest number of route pairs of one item that need a remote lookup
MaxPairs == 21

(***************************************************************************)
(* Python values.  A jump count is a natural number; the durable store     *)
(* keeps "no route" as -1 (pathfinder.py:55); Python's None and an         *)
(* exception object returned by gather(return_exceptions=True) are encoded *)
(* as two integers that are neither a jump count nor -1.                   *)
(***************************************************************************)
PyNone == 0 - 100
PyExc == 0 - 200
DbNoRoute == 0 - 1

Systems == {1, 2}
RouteFlags == {"secure", "shortest"}
\* (origin, destination) pairs of candidates; origin = destination happens
\* when both stations lie in the same system
AllPairs == {<<1, d>> : d \in Systems}
\* the pairs of the candidates of a batch of two items
BatchPairs == {<<1, 2>>, <<1, 3>>}
Triples == {<<p[1], p[2], f>> : p \in AllPairs \cup BatchPairs, f \in RouteFlags}
JumpCounts == 1..MaxJumps

VARIABLES
  memory_cache,   \* pathfinder.memory_cache: (origin, dest, flag) -> jumps | None
  routes,         \* table routes of trading.db: (origin, dest) -> jumps | -1
  trades,         \* table trades of trading.db (the fields the claims read)
  route_flag,     \* scanner.settings['route_flag']
  esi,            \* the route service's answer per triple, fixed once given
  calls,          \* the find_trades calls of the scan's event loop
  req,            \* a calculate_distances request thread in get_jumps_sync
  hist,           \* history: how the last finished resolution of a triple ended
  noroute,        \* history: the triples a remote lookup answered 404 for
  preloaded       \* history: the pairs the process found stored when it started

VARIABLES
  sell_orders,      \* the sell orders process_item hands to find_trades
  buy_orders,       \* the buy orders of the same item
  min_profit,       \* scanner.settings['min_profit']
  trade_mode,       \* scanner.settings['trade_mode']; "none": no strategy applied yet
  potential_trades  \* what the strategy returned

VARIABLES
  status,           \* scanner.status
  progress,         \* scanner.progress
  total_items,      \* scanner.total_items
  scanned_items,    \* scanner.scanned_items
  last_updated,     \* scanner.last_updated: None, or a time
  orders,           \* table orders of trading.db
  runs,             \* the run_scan threads and where each is in scan_group
  settings          \* scanner.settings: the trade mode and the cargo capacity

VARIABLES
  walk              \* the locals of the walk of _find_instant_trades over one station pair

VARIABLES
  trade_row         \* the row find_trades has handed to insert_trade last

VARIABLES
  sessions          \* the aiohttp sessions of the batch_get_jumps calls in flight

dvars == <<memory_cache, routes, trades, route_flag, esi, calls, req, hist, noroute,
          preloaded>>
mvars == <<sell_orders, buy_orders, min_profit, trade_mode, potential_trades>>
svars == <<status, progress, total_items, scanned_items, last_updated, orders, runs, settings>>
cvars == <<sessions>>
rvars == <<trade_row>>
wvars == <<walk>>
vars == <<dvars, mvars, svars, cvars, rvars, wvars>>

(***************************************************************************)
(* Layer 1: the distance resolver (pathfinder.py) and the ranking step     *)
(* (market.py find_trades).                                                *)
(***************************************************************************)
Items == {1}

\* market.py:138-140  the items of one batch, whose process_item tasks share
\* the event loop
BatchItems == {1, 2}

NoHist == [kind |-> "none", val |-> PyNone]

\* one get_jumps_async coroutine (pc: new -> db -> pending -> ret), with the
\* history fields the claims read: looked (it issued a remote lookup), late
\* (it began after a 404 for its triple), prev (the last resolution of its
\* triple that had finished when it began), pfail (that one failed and no
\* other resolution has cached the triple since)
NewTask(p) ==
  [pair |-> p, pc |-> "new", res |-> PyNone, looked |-> FALSE,
   late |-> FALSE, prev |-> NoHist, pfail |-> FALSE]

IdleCall == [pc |-> "idle", cands |-> <<>>, tasks |-> <<>>]
IdleReq == [NewTask(<<1, 1>>) EXCEPT !.pc = "idle"] @@ [flag |-> "secure"]

Key(p, f) == <<p[1], p[2], f>>

\* a bug MemoryHit could have: `if memory_cache.get(cache_key):` takes a cached
\* None for a miss
MemoryHitTruthy(mem, k) == k \in DOMAIN mem /\ mem[k] # PyNone

\* pathfinder.py:28  `if cache_key in memory_cache`
MemoryHit(mem, k) == k \in DOMAIN mem

\* a bug DbConsulted could have: the store, keyed by the pair alone, is used
\* for every profile
DbConsultedAlways(f) == TRUE

\* pathfinder.py:32  the durable store is consulted for the default profile only
DbConsulted(f) == f = "secure"

\* pathfinder.py:33-36  get_jumps_async keeps the stored value as it is
FromDb(cached) == cached

\* pathfinder.py:167-173  get_jumps_sync turns the stored -1 into None
SyncFromDb(cached) == IF cached = DbNoRoute THEN PyNone ELSE cached

\* pathfinder.py:161-163  get_jumps_sync answering from memory
SyncFromMemory(v) == IF v = DbNoRoute THEN PyNone ELSE v

\* a bug MemoryAfterFailure could have: the failure is cached like a 404
MemoryAfterFailureCached(mem, k) == (k :> PyNone) @@ mem

\* pathfinder.py:57-61  a failed lookup writes nothing
MemoryAfterFailure(mem, k) == mem

\* pathfinder.py:46 and 53  the answer is put in memory: jumps, or None for 404
MemoryAfterAnswer(mem, k, a) == (k :> a) @@ mem

\* pathfinder.py:48-49 and 54-55  and in the durable store for secure routes
RoutesAfterAnswer(rts, k, a) ==
  IF DbConsulted(k[3])
  THEN (<<k[1], k[2]>> :> (IF a = PyNone THEN DbNoRoute ELSE a)) @@ rts
  ELSE rts

\* a bug Preloaded could have: the stored -1 is loaded as it is
PreloadedRaw(rts) ==
  [k \in {Key(p, "secure") : p \in DOMAIN rts} |-> rts[<<k[1], k[2]>>]]

\* pathfinder.py:189-198  preload_routes_from_db
Preloaded(rts) ==
  [k \in {Key(p, "secure") : p \in DOMAIN rts} |->
     IF rts[<<k[1], k[2]>>] # DbNoRoute THEN rts[<<k[1], k[2]>>] ELSE PyNone]

\* market.py:261  `if jumps is None or isinstance(jumps, Exception): continue`
JoinKeeps(jumps) == ~(jumps = PyNone \/ jumps = PyExc)

Cached(mem, rts, k) ==
  MemoryHit(mem, k) \/ (DbConsulted(k[3]) /\ <<k[1], k[2]>> \in DOMAIN rts)

\* history: the resolution of k begins
Begin(t, k) ==
  [t EXCEPT !.late = k \in noroute, !.prev = hist[k],
            !.pfail = (hist[k].kind = "failed")]

\* history: a step of a resolution of k has left the task as t2 and the memory
\* as mem2; ev tells how it returned: "value" (from a cache, or a 200 or 404
\* answer), "fail" (the lookup failed) or "raise"
HistAfter(k, t2, ev, mem2) ==
  IF t2.pc # "ret" \/ k[1] = k[2] \/ ev = "raise" THEN hist
  ELSE IF ev = "value" THEN [hist EXCEPT ![k] = [kind |-> "cached", val |-> mem2[k]]]
  ELSE IF Cached(memory_cache, routes, k) THEN hist
  ELSE [hist EXCEPT ![k] = [kind |-> "failed", val |-> PyNone]]

\* history: the resolution t of k reads a cache; it stays "after a failure"
\* only while no other resolution has cached k in the meantime
Reread(t, k) == [t EXCEPT !.pfail = (t.pfail /\ hist[k].kind = "failed")]

\* pathfinder.py:22-29  same system, then the in-memory cache
MemResult(t, k) ==
  LET u == Reread(t, k) IN
  IF k[1] = k[2] THEN [u EXCEPT !.pc = "ret", !.res = 0]
  ELSE IF MemoryHit(memory_cache, k)
       THEN [u EXCEPT !.pc = "ret", !.res = memory_cache[k]]
  ELSE [u EXCEPT !.pc = "db"]

\* pathfinder.py:31-41  the durable store, else the request to the route service;
\* err: get_cached_route raises (the read is outside the try block)
DbResult(t, k, err) ==
  LET u == Reread(t, k) IN
  IF DbConsulted(k[3]) /\ err THEN [u EXCEPT !.pc = "ret", !.res = PyExc]
  ELSE IF DbConsulted(k[3]) /\ <<k[1], k[2]>> \in DOMAIN routes
       THEN [u EXCEPT !.pc = "ret", !.res = FromDb(routes[<<k[1], k[2]>>])]
  ELSE [u EXCEPT !.pc = "pending", !.looked = TRUE]

DbMemory(k, err) ==
  IF DbConsulted(k[3]) /\ ~err /\ <<k[1], k[2]>> \in DOMAIN routes
  THEN (k :> FromDb(routes[<<k[1], k[2]>>])) @@ memory_cache
  ELSE memory_cache

\* the answers the route service can give for k: the one it gave before, or
\* any jump count or "no route" (PyNone) the first time
Answers(k) == IF k \in DOMAIN esi THEN {esi[k]} ELSE JumpCounts \cup {PyNone}

EmptyFn == [x \in {} |-> 0]

Perms(S) == {s \in [1..Cardinality(S) -> S] : \A i, j \in DOMAIN s : s[i] = s[j] => i = j}
Range(s) == {s[i] : i \in DOMAIN s}
CandSeqs == UNION {[1..n -> AllPairs] : n \in 0..MaxCands}

\* a bug RoutePairs could have: one lookup per candidate, without the set
RoutePairsPerCandidate(cs) == {cs}

\* market.py:251  route_pairs = list(set(...)): the distinct pairs of the
\* candidates, in any order
RoutePairs(cs) == Perms(Range(cs))

\* tasks of one event loop run each from entry to the first await without
\* interleaving: no step of the scan's loop while one of its coroutines is
\* between the memory check and the request (another thread may still run)
ScanLoopFree ==
  /\ req.pc # "ret"
  /\ \A c \in BatchItems : \A i \in DOMAIN calls[c].tasks : calls[c].tasks[i].pc # "db"

\* market.py:221-226  no listing has been handed to a strategy
MatchNone ==
  /\ sell_orders = <<>>
  /\ buy_orders = <<>>
  /\ min_profit = 0
  /\ trade_mode = "none"
  /\ potential_trades = <<>>

\* pathfinder.py:7 and database.py:init_db  empty caches, an empty database
DistNew ==
  /\ memory_cache = EmptyFn
  /\ routes = EmptyFn
  /\ trades = {}
  /\ route_flag = "secure"
  /\ esi = EmptyFn
  /\ calls = [c \in BatchItems |-> IdleCall]
  /\ req = IdleReq
  /\ hist = [k \in Triples |-> NoHist]
  /\ noroute = {}
  /\ preloaded = {}

\* market.py:691-696 and 99-107  a run sets the route flag and clears the trades
NewScan(f) ==
  /\ ScanLoopFree
  /\ \A c \in BatchItems : calls[c].pc \in {"idle", "done"}
  /\ route_flag' = f
  /\ trades' = {}
  /\ calls' = [c \in BatchItems |-> IdleCall]
  /\ UNCHANGED <<memory_cache, routes, esi, req, hist, noroute, preloaded, mvars, svars, cvars, rvars, wvars>>

\* market.py:221-254 and pathfinder.py:128-133  find_trades for item c with the
\* candidates cs: the unique (origin, dest) pairs, in the order the set gives
\* them, become one get_jumps_async task each
FindTrades(c, cs, rp) ==
  /\ ScanLoopFree
  /\ calls[c].pc = "idle"
  /\ rp \in RoutePairs(cs)
  /\ calls' = [calls EXCEPT ![c] =
       IF cs = <<>> THEN [IdleCall EXCEPT !.pc = "done"]
       ELSE [pc |-> "gather", cands |-> cs, tasks |-> [i \in DOMAIN rp |-> NewTask(rp[i])]]]
  /\ UNCHANGED <<memory_cache, routes, trades, route_flag, esi, req, hist, noroute, preloaded, mvars, svars, cvars, rvars, wvars>>

\* pathfinder.py:22-29 in task i of call c
TaskMem(c, i) ==
  /\ ScanLoopFree
  /\ calls[c].pc = "gather"
  /\ i \in DOMAIN calls[c].tasks
  /\ calls[c].tasks[i].pc = "new"
  /\ \A j \in 1..(i - 1) : calls[c].tasks[j].pc # "new"
  /\ LET k == Key(calls[c].tasks[i].pair, route_flag)
         t2 == MemResult(Begin(calls[c].tasks[i], k), k)
     IN /\ calls' = [calls EXCEPT ![c].tasks[i] = t2]
        /\ hist' = HistAfter(k, t2, "value", memory_cache)
  /\ UNCHANGED <<memory_cache, routes, trades, route_flag, esi, req, noroute, preloaded, mvars, svars, cvars, rvars, wvars>>

\* pathfinder.py:31-41 in task i of call c
TaskDb(c, i, err) ==
  /\ calls[c].pc = "gather"
  /\ i \in DOMAIN calls[c].tasks
  /\ calls[c].tasks[i].pc = "db"
  /\ req.pc # "ret"
  /\ err => DbConsulted(route_flag)
  /\ LET k == Key(calls[c].tasks[i].pair, route_flag)
         t2 == DbResult(calls[c].tasks[i], k, err)
     IN /\ calls' = [calls EXCEPT ![c].tasks[i] = t2]
        /\ memory_cache' = DbMemory(k, err)
        /\ hist' = HistAfter(k, t2, IF err THEN "raise" ELSE "value", DbMemory(k, err))
  /\ UNCHANGED <<routes, trades, route_flag, esi, req, noroute, preloaded, mvars, svars, cvars, rvars, wvars>>

\* pathfinder.py:42-56  status 200 with a route, or 404
TaskAnswer(c, i, a) ==
  /\ ScanLoopFree
  /\ calls[c].pc = "gather"
  /\ i \in DOMAIN calls[c].tasks
  /\ calls[c].tasks[i].pc = "pending"
  /\ LET k == Key(calls[c].tasks[i].pair, route_flag)
         t2 == [calls[c].tasks[i] EXCEPT !.pc = "ret", !.res = a]
     IN /\ a \in Answers(k)
        /\ calls' = [calls EXCEPT ![c].tasks[i] = t2]
        /\ memory_cache' = MemoryAfterAnswer(memory_cache, k, a)
        /\ routes' = RoutesAfterAnswer(routes, k, a)
        /\ esi' = (k :> a) @@ esi
        /\ noroute' = IF a = PyNone THEN noroute \cup {k} ELSE noroute
        /\ hist' = HistAfter(k, t2, "value", MemoryAfterAnswer(memory_cache, k, a))
  /\ UNCHANGED <<trades, route_flag, req, preloaded, mvars, svars, cvars, rvars, wvars>>

\* pathfinder.py:57-61  another status, a timeout or a transport error
TaskFail(c, i) ==
  /\ ScanLoopFree
  /\ calls[c].pc = "gather"
  /\ i \in DOMAIN calls[c].tasks
  /\ calls[c].tasks[i].pc = "pending"
  /\ LET k == Key(calls[c].tasks[i].pair, route_flag)
         t2 == [calls[c].tasks[i] EXCEPT !.pc = "ret", !.res = PyNone]
     IN /\ calls' = [calls EXCEPT ![c].tasks[i] = t2]
        /\ memory_cache' = MemoryAfterFailure(memory_cache, k)
        /\ hist' = HistAfter(k, t2, "fail", MemoryAfterFailure(memory_cache, k))
  /\ UNCHANGED <<routes, trades, route_flag, esi, req, noroute, preloaded, mvars, svars, cvars, rvars, wvars>>

\* a bug RouteData could have: the results taken in another order than the
\* pairs (as they complete, last first)
RouteDataMisplaced(c) ==
  LET n == Len(calls[c].tasks) IN
  [p \in {calls[c].tasks[i].pair : i \in DOMAIN calls[c].tasks} |->
     calls[c].tasks[n + 1 - (CHOOSE i \in DOMAIN calls[c].tasks : calls[c].tasks[i].pair = p)].res]

\* pathfinder.py:128-134 and market.py:254-255  gather returns the results in
\* the order of the tasks: route_data = {route_pairs[i]: jumps_results[i]}
RouteData(c) ==
  [p \in {calls[c].tasks[i].pair : i \in DOMAIN calls[c].tasks} |->
     calls[c].tasks[CHOOSE i \in DOMAIN calls[c].tasks : calls[c].tasks[i].pair = p].res]

\* a bug the join could have: a gather without return_exceptions, where one
\* failed or raising lookup loses the candidates of the whole call
RankedAllOrNothing(c) ==
  IF \E i \in DOMAIN calls[c].tasks : ~JoinKeeps(calls[c].tasks[i].res) THEN {}
  ELSE {[item |-> c, n |-> n, origin |-> calls[c].cands[n][1], dest |-> calls[c].cands[n][2],
         jumps |-> RouteData(c)[calls[c].cands[n]],
         known404 |-> Key(calls[c].cands[n], route_flag) \in noroute] :
          n \in DOMAIN calls[c].cands}

\* market.py:257-292  the trades find_trades inserts for item c
Ranked(c) ==
  {[item |-> c, n |-> n, origin |-> calls[c].cands[n][1], dest |-> calls[c].cands[n][2],
    jumps |-> RouteData(c)[calls[c].cands[n]],
    known404 |-> Key(calls[c].cands[n], route_flag) \in noroute] :
     n \in {m \in DOMAIN calls[c].cands : JoinKeeps(RouteData(c)[calls[c].cands[m]])}}

\* market.py:254-292  gather has returned: join and insert
Join(c) ==
  /\ ScanLoopFree
  /\ calls[c].pc = "gather"
  /\ \A i \in DOMAIN calls[c].tasks : calls[c].tasks[i].pc = "ret"
  /\ trades' = trades \cup Ranked(c)
  /\ calls' = [calls EXCEPT ![c] = [IdleCall EXCEPT !.pc = "done"]]
  /\ UNCHANGED <<memory_cache, routes, route_flag, esi, req, hist, noroute, preloaded, mvars, svars, cvars, rvars, wvars>>

\* app.py:369-394 and pathfinder.py:153-163  a calculate_distances request
\* calls get_jumps_sync(p, f) in its own thread: same system, then memory
SyncStart(p, f) ==
  /\ req.pc = "idle"
  /\ LET k == Key(p, f)
         t == Begin(NewTask(p) @@ [flag |-> f], k)
         t2 == IF p[1] = p[2] THEN [t EXCEPT !.pc = "ret", !.res = 0]
               ELSE IF MemoryHit(memory_cache, k)
                    THEN [t EXCEPT !.pc = "ret", !.res = SyncFromMemory(memory_cache[k])]
               ELSE [t EXCEPT !.pc = "sdb"]
     IN /\ req' = t2
        /\ hist' = HistAfter(k, t2, "value", memory_cache)
  /\ UNCHANGED <<memory_cache, routes, trades, route_flag, esi, calls, noroute, preloaded, mvars, svars, cvars, rvars, wvars>>

\* pathfinder.py:165-179  the durable store, else get_jumps_async in a new loop
SyncDb ==
  /\ req.pc = "sdb"
  /\ LET k == Key(req.pair, req.flag)
         hit == DbConsulted(req.flag) /\ req.pair \in DOMAIN routes
         mem2 == IF hit THEN (k :> SyncFromDb(routes[req.pair])) @@ memory_cache
                 ELSE memory_cache
         u == Reread(req, k)
         t2 == IF hit THEN [u EXCEPT !.pc = "ret", !.res = SyncFromDb(routes[req.pair])]
               ELSE [u EXCEPT !.pc = "new"]
     IN /\ req' = t2
        /\ memory_cache' = mem2
        /\ hist' = HistAfter(k, t2, "value", mem2)
  /\ UNCHANGED <<routes, trades, route_flag, esi, calls, noroute, preloaded, mvars, svars, cvars, rvars, wvars>>

\* pathfinder.py:22-29 in the request thread
ReqMem ==
  /\ req.pc = "new"
  /\ LET k == Key(req.pair, req.flag)
         t2 == MemResult(req, k)
     IN /\ req' = t2
        /\ hist' = HistAfter(k, t2, "value", memory_cache)
  /\ UNCHANGED <<memory_cache, routes, trades, route_flag, esi, calls, noroute, preloaded, mvars, svars, cvars, rvars, wvars>>

\* pathfinder.py:31-41 in the request thread
ReqDb ==
  /\ req.pc = "db"
  /\ LET k == Key(req.pair, req.flag)
         t2 == DbResult(req, k, FALSE)
     IN /\ req' = t2
        /\ memory_cache' = DbMemory(k, FALSE)
        /\ hist' = HistAfter(k, t2, "value", DbMemory(k, FALSE))
  /\ UNCHANGED <<routes, trades, route_flag, esi, calls, noroute, preloaded, mvars, svars, cvars, rvars, wvars>>

\* pathfinder.py:42-56 in the request thread
ReqAnswer(a) ==
  /\ req.pc = "pending"
  /\ LET k == Key(req.pair, req.flag)
         t2 == [req EXCEPT !.pc = "ret", !.res = a]
     IN /\ a \in Answers(k)
        /\ req' = t2
        /\ memory_cache' = MemoryAfterAnswer(memory_cache, k, a)
        /\ routes' = RoutesAfterAnswer(routes, k, a)
        /\ esi' = (k :> a) @@ esi
        /\ noroute' = IF a = PyNone THEN noroute \cup {k} ELSE noroute
        /\ hist' = HistAfter(k, t2, "value", MemoryAfterAnswer(memory_cache, k, a))
  /\ UNCHANGED <<trades, route_flag, calls, preloaded, mvars, svars, cvars, rvars, wvars>>

\* pathfinder.py:57-61 in the request thread
ReqFail ==
  /\ req.pc = "pending"
  /\ LET k == Key(req.pair, req.flag)
         t2 == [req EXCEPT !.pc = "ret", !.res = PyNone]
     IN /\ req' = t2
        /\ memory_cache' = MemoryAfterFailure(memory_cache, k)
        /\ hist' = HistAfter(k, t2, "fail", MemoryAfterFailure(memory_cache, k))
  /\ UNCHANGED <<routes, trades, route_flag, esi, calls, noroute, preloaded, mvars, svars, cvars, rvars, wvars>>

\* app.py:376-392  calculate_distances has the result and takes the next pair
ReqReturn ==
  /\ req.pc = "ret"
  /\ req' = IdleReq
  /\ UNCHANGED <<memory_cache, routes, trades, route_flag, esi, calls, hist, noroute, preloaded, mvars, svars, cvars, rvars, wvars>>

\* pathfinder.py:7, market.py:689 and app.py:449-456  the process is started
\* again: memory_cache and the scanner are new, the database file stays, and
\* the main block preloads the stored routes before it serves
Restart ==
  /\ req.pc # "ret"
  /\ memory_cache' = Preloaded(routes)
  /\ calls' = [c \in BatchItems |-> IdleCall]
  /\ req' = IdleReq
  /\ route_flag' = "secure"
  /\ hist' = [k \in Triples |-> NoHist]
  /\ preloaded' = DOMAIN routes
  /\ UNCHANGED <<routes, trades, esi, noroute, mvars, svars, cvars, rvars, wvars>>

NextRun ==
  \/ \E f \in RouteFlags : NewScan(f)
  \/ \E c \in Items, cs \in CandSeqs : \E rp \in RoutePairs(cs) : FindTrades(c, cs, rp)
  \/ \E c \in Items, i \in 1..MaxCands : TaskMem(c, i)
  \/ \E c \in Items, i \in 1..MaxCands, err \in BOOLEAN : TaskDb(c, i, err)
  \/ \E c \in Items, i \in 1..MaxCands, a \in JumpCounts \cup {PyNone} : TaskAnswer(c, i, a)
  \/ \E c \in Items, i \in 1..MaxCands : TaskFail(c, i)
  \/ \E c \in Items : Join(c)
  \/ \E p \in AllPairs, f \in RouteFlags : SyncStart(p, f)
  \/ SyncDb
  \/ ReqMem
  \/ ReqDb
  \/ \E a \in JumpCounts \cup {PyNone} : ReqAnswer(a)
  \/ ReqFail
  \/ ReqReturn

Next == NextRun \/ Restart

\* the candidates of an item of the batch
BatchCandSeqs == UNION {[1..n -> BatchPairs] : n \in 0..MaxCands}

\* market.py:138-140  one batch of a scan under the default profile: each
\* item calls find_trades once, and the lookup tasks of all of them run on
\* the scan's event loop
NextBatch ==
  \/ \E c \in BatchItems, cs \in BatchCandSeqs : \E rp \in RoutePairs(cs) : FindTrades(c, cs, rp)
  \/ \E c \in BatchItems, i \in 1..MaxCands : TaskMem(c, i)
  \/ \E c \in BatchItems, i \in 1..MaxCands, err \in BOOLEAN : TaskDb(c, i, err)
  \/ \E c \in BatchItems, i \in 1..MaxCands, a \in JumpCounts \cup {PyNone} : TaskAnswer(c, i, a)
  \/ \E c \in BatchItems, i \in 1..MaxCands : TaskFail(c, i)
  \/ \E c \in BatchItems : Join(c)

(***************************************************************************)
(* Layer 2: the scan orchestrator (market.py run_scan, scan_group) and the *)
(* handlers that start and stop it (app.py start_scan, stop_scan,          *)
(* clear_db).  Every start request that is accepted starts a thread; the   *)
(* threads and the request handlers interleave between statements.  What   *)
(* process_item does for one item is shown by layers 1 and 3; here an item *)
(* ends with nothing stored, with its orders stored, or with its orders    *)
(* and a trade stored, and the two tables are kept as the runs that have   *)
(* rows in them.  Of the settings a run writes, the trade mode and the      *)
(* cargo capacity are kept; they decide how an item with candidates ends.  *)
(***************************************************************************)
\* largest number of run_scan threads alive at the same time
MaxRuns == 2
\* largest number of item types of the scanned market group
MaxItems == 6
\* market.py:136  batch_size
BatchSize == 5

Runs == 1..MaxRuns
ItemCounts == {0, MaxItems}
\* how process_item ends for an item: without a listing; with its orders
\* stored and no candidate; with candidates of which every distance lookup
\* failed; with candidates and a stored trade
Outcomes == {"nothing", "orders", "failed", "trade"}

\* market.py:15-20  TRADE_MODES
TradeModes == {"instant", "buy_orders", "sell_orders", "patient"}

\* market.py:30-37  the settings of a new MarketScanner
DefaultSettings == [trade_mode |-> "instant", cargo_capacity |-> 830000]

\* app.py:320-326  what a start request can ask for: the default, an unknown
\* trade mode, a cargo capacity of zero, a negative one
Requests ==
  {DefaultSettings,
   [trade_mode |-> "bogus", cargo_capacity |-> 830000],
   [trade_mode |-> "instant", cargo_capacity |-> 0],
   [trade_mode |-> "instant", cargo_capacity |-> 0 - 1]}

\* a thread slot: pc where the thread is (none: no thread), args what the
\* thread was started with (until run_scan has written it to the settings),
\* n = len(all_types), i the loop index, left the items of the batch still in
\* flight; history: stop (stop was requested while this run was scanning),
\* look (the distance lookups of the batch so far: none, all failed, some ok)
\* and failed (a batch of the run ended with every lookup failed)
NoRun == [pc |-> "none", args |-> DefaultSettings, n |-> 0, i |-> 0, left |-> 0,
          stop |-> FALSE, look |-> "none", failed |-> FALSE]

Scanning(r) == runs[r].pc \in {"groups", "loop", "batch"}
Alive(r) == runs[r].pc # "none"

\* market.py:24-30  MarketScanner.__init__, and an empty database
ScanNew ==
  /\ status = "idle"
  /\ progress = 0
  /\ total_items = 0
  /\ scanned_items = 0
  /\ last_updated = PyNone
  /\ orders = {}
  /\ runs = [r \in Runs |-> NoRun]
  /\ settings = DefaultSettings

ovars == <<memory_cache, routes, route_flag, esi, calls, req, hist, noroute, preloaded,
          mvars, cvars, rvars, wvars>>

\* app.py:316  `if scanner.status == 'scanning'`
Rejects(st) == st = "scanning"

\* app.py:313-334  start_scan: rejected with 400, or a thread is started with
\* what the request asks for
StartScan(r, request) ==
  /\ ~Alive(r)
  /\ \A q \in Runs : q < r => Alive(q)
  /\ runs' = IF Rejects(status) THEN runs
              ELSE [runs EXCEPT ![r] = [NoRun EXCEPT !.pc = "started", !.args = request]]
  /\ UNCHANGED <<settings, status, progress, total_items, scanned_items, last_updated, orders, trades, ovars>>

\* app.py:352-355  stop_scan
StopScan ==
  /\ status' = "stopped"
  /\ runs' = [r \in Runs |-> IF Scanning(r) THEN [runs[r] EXCEPT !.stop = TRUE] ELSE runs[r]]
  /\ UNCHANGED <<settings, progress, total_items, scanned_items, last_updated, orders, trades, ovars>>

\* app.py:358-366  clear_db
ClearDb ==
  /\ orders' = {}
  /\ trades' = {}
  /\ last_updated' = PyNone
  /\ UNCHANGED <<settings, status, progress, total_items, scanned_items, runs, ovars>>

\* market.py:691-701 and 101-104  the thread runs: run_scan writes the
\* settings, scan_group sets the status and the progress
BeginScan(r) ==
  /\ runs[r].pc = "started"
  /\ settings' = runs[r].args
  /\ status' = "scanning"
  /\ progress' = 0
  /\ runs' = [runs EXCEPT ![r].pc = "begun", ![r].args = DefaultSettings]
  /\ UNCHANGED <<total_items, scanned_items, last_updated, orders, trades, ovars>>

\* market.py:106-113  clear_orders(), clear_trades(), then the request for the
\* market groups
ClearTables(r) ==
  /\ runs[r].pc = "begun"
  /\ orders' = {}
  /\ trades' = {}
  /\ runs' = [runs EXCEPT ![r].pc = "groups"]
  /\ UNCHANGED <<settings, status, progress, total_items, scanned_items, last_updated, ovars>>

\* market.py:114-116  no market groups: status "error", the run ends
GroupsFail(r) ==
  /\ runs[r].pc = "groups"
  /\ status' = "error"
  /\ runs' = [runs EXCEPT ![r] = NoRun]
  /\ UNCHANGED <<settings, progress, total_items, scanned_items, last_updated, orders, trades, ovars>>

\* market.py:118-133  the groups and their n item types have arrived
GroupsOk(r, n) ==
  /\ runs[r].pc = "groups"
  /\ total_items' = n
  /\ scanned_items' = 0
  /\ runs' = [runs EXCEPT ![r].pc = "loop", ![r].n = n, ![r].i = 0]
  /\ UNCHANGED <<settings, status, progress, last_updated, orders, trades, ovars>>

\* market.py:138  len(all_types[i:i+batch_size])
BatchLen(n, i) == IF n - i < BatchSize THEN n - i ELSE BatchSize

\* market.py:137  `for i in range(0, len(all_types), batch_size)` goes on while
\* i < n; the status st is not read
StartsBatch(st, n, i) == i < n

\* market.py:137-140  the next batch: one process_item task per item
StartBatch(r) ==
  /\ runs[r].pc = "loop"
  /\ StartsBatch(status, runs[r].n, runs[r].i)
  /\ runs' = [runs EXCEPT ![r].pc = "batch", ![r].left = BatchLen(runs[r].n, runs[r].i)]
  /\ UNCHANGED <<settings, status, progress, total_items, scanned_items, last_updated, orders, trades, ovars>>

\* market.py:228-248  an unknown trade mode takes no branch: no candidates
HasCandidates(out, st) == out \in {"failed", "trade"} => st.trade_mode \in TradeModes

\* market.py:264-265  trips = math.ceil(volume_m3 / cargo) for a candidate
\* that has a distance
TripsRaise(out, st) == out = "trade" /\ st.cargo_capacity = 0

\* history: the lookups of the batch after an item that ended with out
LookAfter(look, out) ==
  IF out = "trade" \/ look = "ok" THEN "ok"
  ELSE IF out = "failed" THEN "failed"
  ELSE look

\* market.py:148-212 and 221-292  one process_item task of the batch ends
ItemDone(r, out) ==
  /\ runs[r].pc = "batch"
  /\ runs[r].left > 0
  /\ HasCandidates(out, settings)
  /\ ~TripsRaise(out, settings)
  /\ orders' = IF out = "nothing" THEN orders ELSE orders \cup {[run |-> r]}
  /\ trades' = IF out = "trade" THEN trades \cup {[run |-> r]} ELSE trades
  /\ runs' = [runs EXCEPT ![r].left = @ - 1, ![r].look = LookAfter(@, out)]
  /\ UNCHANGED <<settings, status, progress, total_items, scanned_items, last_updated, ovars>>

\* market.py:209-212 and 264-265  the orders of the item are stored, then
\* find_trades divides by a cargo capacity of zero: ZeroDivisionError, which
\* nothing catches, and the thread dies
ItemDivides(r) ==
  /\ runs[r].pc = "batch"
  /\ runs[r].left > 0
  /\ HasCandidates("trade", settings)
  /\ TripsRaise("trade", settings)
  /\ orders' = orders \cup {[run |-> r]}
  /\ runs' = [runs EXCEPT ![r] = NoRun]
  /\ UNCHANGED <<settings, status, progress, total_items, scanned_items, last_updated, trades, ovars>>

\* market.py:166-168 and 140  an order of the listing lacks a field
\* (order['systemId'] raises KeyError before anything of the item is stored):
\* gather passes the exception on, scan_group and run_scan do not catch it,
\* the thread dies and the status stays as it is
ItemRaise(r) ==
  /\ runs[r].pc = "batch"
  /\ runs[r].left > 0
  /\ runs' = [runs EXCEPT ![r] = NoRun]
  /\ UNCHANGED <<settings, status, progress, total_items, scanned_items, last_updated, orders, trades, ovars>>

\* market.py:140-142  gather has returned: the counters; the division raises
\* when another run has set total_items to 0, and the thread dies
EndBatch(r) ==
  /\ runs[r].pc = "batch"
  /\ runs[r].left = 0
  /\ scanned_items' = scanned_items + BatchLen(runs[r].n, runs[r].i)
  /\ IF total_items = 0
     THEN /\ runs' = [runs EXCEPT ![r] = NoRun]
          /\ UNCHANGED progress
     ELSE /\ progress' = (scanned_items' * 100) \div total_items
          /\ runs' = [runs EXCEPT ![r].pc = "loop", ![r].i = @ + BatchSize,
                                  ![r].look = "none",
                                  ![r].failed = @ \/ runs[r].look = "failed"]
  /\ UNCHANGED <<settings, status, total_items, last_updated, orders, trades, ovars>>

\* market.py:144-146  the loop is over: status "complete"
Finish(r) ==
  /\ runs[r].pc = "loop"
  /\ ~StartsBatch(status, runs[r].n, runs[r].i)
  /\ status' = "complete"
  /\ progress' = 100
  /\ last_updated' = 1
  /\ runs' = [runs EXCEPT ![r] = NoRun]
  /\ UNCHANGED <<settings, total_items, scanned_items, orders, trades, ovars>>

NextScan ==
  \/ \E r \in Runs, request \in Requests : StartScan(r, request)
  \/ StopScan
  \/ ClearDb
  \/ \E r \in Runs : BeginScan(r)
  \/ \E r \in Runs : ClearTables(r)
  \/ \E r \in Runs : GroupsFail(r)
  \/ \E r \in Runs, n \in ItemCounts : GroupsOk(r, n)
  \/ \E r \in Runs : StartBatch(r)
  \/ \E r \in Runs, out \in Outcomes : ItemDone(r, out)
  \/ \E r \in Runs : ItemDivides(r)
  \/ \E r \in Runs : ItemRaise(r)
  \/ \E r \in Runs : EndBatch(r)
  \/ \E r \in Runs : Finish(r)

(***************************************************************************)
(* Layer 4: the connections to the route service.  The items of a batch    *)
(* run process_item concurrently on the scan's event loop (market.py:      *)
(* 138-140); each one that has candidates awaits batch_get_jumps, which    *)
(* opens a session of its own on a connector of its own with limit=20 and  *)
(* starts all its lookups at once (pathfinder.py:128-134).  A lookup that  *)
(* finds no free connection of its connector waits for one.  Only the      *)
(* numbers are modelled: per item, the lookups that still wait and the     *)
(* ones that hold a connection.                                            *)
(***************************************************************************)
\* pathfinder.py:130  aiohttp.TCPConnector(limit=20)
ConnectorLimit == 20

\* the items of the batch that can be in find_trades together
Flights == 1..MaxFlight

PairCounts == {1, MaxPairs}

NoSession == [pc |-> "none", waiting |-> 0, held |-> 0]

SessionsNone == sessions = [c \in Flights |-> NoSession]

\* aiohttp's connector hands out a connection while fewer than limit are held
Acquires(s) == s.held < ConnectorLimit

\* the lookups outstanding at the route service, over all sessions
RECURSIVE Outstanding(_)
Outstanding(S) ==
  IF S = {} THEN 0
  ELSE LET c == CHOOSE x \in S : TRUE IN sessions[c].held + Outstanding(S \ {c})

\* pathfinder.py:128-133  item c calls batch_get_jumps with n pairs that miss
\* the caches: a new connector, a new session, one task per pair
BatchGetJumps(c, n) ==
  /\ sessions[c].pc = "none"
  /\ sessions' = [sessions EXCEPT ![c] = [pc |-> "open", waiting |-> n, held |-> 0]]
  /\ UNCHANGED <<dvars, mvars, svars, rvars, wvars>>

\* pathfinder.py:42  session.get: a task of item c gets a connection
Request(c) ==
  /\ sessions[c].pc = "open"
  /\ sessions[c].waiting > 0
  /\ Acquires(sessions[c])
  /\ sessions' = [sessions EXCEPT ![c].waiting = @ - 1, ![c].held = @ + 1]
  /\ UNCHANGED <<dvars, mvars, svars, rvars, wvars>>

\* pathfinder.py:42-61  the answer, a timeout or an error: the connection is
\* given back
Response(c) ==
  /\ sessions[c].pc = "open"
  /\ sessions[c].held > 0
  /\ sessions' = [sessions EXCEPT ![c].held = @ - 1]
  /\ UNCHANGED <<dvars, mvars, svars, rvars, wvars>>

\* pathfinder.py:131-134  gather has returned; the session is closed
SessionClose(c) ==
  /\ sessions[c].pc = "open"
  /\ sessions[c].waiting = 0
  /\ sessions[c].held = 0
  /\ sessions' = [sessions EXCEPT ![c] = NoSession]
  /\ UNCHANGED <<dvars, mvars, svars, rvars, wvars>>

NextSessions ==
  \/ \E c \in Flights, n \in PairCounts : BatchGetJumps(c, n)
  \/ \E c \in Flights : Request(c)
  \/ \E c \in Flights : Response(c)
  \/ \E c \in Flights : SessionClose(c)

(***************************************************************************)
(* Layer 5: the figures find_trades computes for a candidate that has a    *)
(* distance (market.py:264-292).  Volumes are whole m3; the division of    *)
(* the profit by the travel cost is kept as a fraction num/den.            *)
(***************************************************************************)
RowVolumes == {0, 1, 1000}
ItemVolumes == {0, 2, 3}
Cargos == {0 - 500, 0, 500, 830000}
RowJumps == {0 - 1, 0, 3}
RowProfits == {0 - 7, 0, 185}

NoRow == [stored |-> FALSE]

RowNone == trade_row = NoRow

\* a bug CeilDiv could have: int(a / b), which rounds toward zero
CeilDivTruncated(a, b) ==
  IF (a >= 0) = (b > 0) THEN a \div b ELSE 0 - ((0 - a) \div b)

\* market.py:265  math.ceil(a / b), b not zero
CeilDiv(a, b) == 0 - ((0 - a) \div b)

\* market.py:267  trade['profit'] / total_jumps if total_jumps > 0 else
\* trade['profit']
ProfitPerJump(profit, total_jumps) ==
  IF total_jumps > 0 THEN [num |-> profit, den |-> total_jumps]
  ELSE [num |-> profit, den |-> 1]

\* market.py:264-292  the row of a candidate with a distance
TradeRow(volume, item_volume, cargo, jumps, profit) ==
  LET volume_m3 == volume * item_volume
      trips == CeilDiv(volume_m3, cargo)
      total_jumps == jumps * 2 * trips
  IN [stored |-> TRUE, volume |-> volume, item_volume |-> item_volume,
      cargo |-> cargo, profit |-> profit, volume_m3 |-> volume_m3,
      jumps |-> jumps, trips |-> trips, total_jumps |-> total_jumps,
      profit_per_jump |-> ProfitPerJump(profit, total_jumps)]

\* market.py:258-292  one turn of the loop over the candidates: the figures
\* are computed and the row is inserted; with a cargo capacity of zero the
\* division raises and nothing is inserted
InsertTrade(volume, item_volume, cargo, jumps, profit) ==
  /\ JoinKeeps(jumps)
  /\ trade_row' = IF cargo = 0 THEN NoRow
                   ELSE TradeRow(volume, item_volume, cargo, jumps, profit)
  /\ UNCHANGED <<dvars, mvars, svars, cvars, wvars>>

NextRows ==
  \E volume \in RowVolumes, item_volume \in ItemVolumes, cargo \in Cargos,
     jumps \in RowJumps, profit \in RowProfits :
       InsertTrade(volume, item_volume, cargo, jumps, profit)

(***************************************************************************)
(* Layer 3: the four order-book matching strategies (market.py             *)
(* _find_instant_trades, _find_buy_order_trades, _find_sell_order_trades,  *)
(* _find_patient_trades).  Prices are whole ISK; the code's float          *)
(* arithmetic is modelled exactly, in units of 1/Scale ISK, so that the    *)
(* fee factors 0.03, 0.066, 0.95 and 1.05 and their products are integers; *)
(* the rounding of the floats is not modelled.                             *)
(***************************************************************************)
\* longest list of sell orders, and of buy orders, of a listing
MaxOrders == 2
\* the net profit is computed in units of 1/Scale ISK
Scale == 10000

Stations == {1, 2}
Prices == {999, 1000, 1200}
Volumes == {0, 1, 3}
Thresholds == {0 - 50, 2}
OrderData == [station_id : Stations, price : Prices, volume : Volumes]
Listings == UNION {[1..n -> OrderData] : n \in 0..MaxOrders}

\* a bug MatchedVolume could have: the larger of the two volumes
MatchedVolumeMax(sell_vol, buy_vol) == IF sell_vol > buy_vol THEN sell_vol ELSE buy_vol

\* market.py:374, 483, 571 and 658  min(sell volume, buy volume)
MatchedVolume(sell_vol, buy_vol) == IF sell_vol < buy_vol THEN sell_vol ELSE buy_vol

\* a bug BelowThreshold could have: the comparison is left out
BelowThresholdNever(net, threshold) == FALSE

\* market.py:399, 491, 579 and 666  `if net_profit < min_profit: continue`
BelowThreshold(net, threshold) == net < Scale * threshold

\* market.py:412, 500, 588 and 675  int(net_profit): truncation toward zero
IntOf(net) == IF net >= 0 THEN net \div Scale ELSE 0 - ((0 - net) \div Scale)

\* market.py:311-333  the keys of sells_by_station / buys_by_station, in the
\* order the dict got them
RECURSIVE StationKeys(_)
StationKeys(order_list) ==
  IF order_list = <<>> THEN <<>>
  ELSE LET r == StationKeys(SubSeq(order_list, 1, Len(order_list) - 1))
           sid == order_list[Len(order_list)].station_id
       IN IF \E i \in DOMAIN r : r[i] = sid THEN r ELSE Append(r, sid)

\* market.py:321 and 333  the 'orders' list of one station
OrdersAt(order_list, sid) == SelectSeq(order_list, LAMBDA o : o.station_id = sid)

\* market.py:336-339  list.sort by price (sign 1) or by -price (sign -1); the
\* sort is stable
RECURSIVE SortedBy(_, _)
SortedBy(order_list, sign) ==
  IF order_list = <<>> THEN <<>>
  ELSE LET r == SortedBy(SubSeq(order_list, 1, Len(order_list) - 1), sign)
           o == order_list[Len(order_list)]
           n == Cardinality({i \in DOMAIN r : sign * r[i].price <= sign * o.price})
       IN SubSeq(r, 1, n) \o <<o>> \o SubSeq(r, n + 1, Len(r))

\* a bug SumVolume could have: the volume of the first order only
SumVolumeFirst(order_list) == order_list[1].volume

\* market.py:471, 558 and 643  sum(o['volume'] for o in orders)
RECURSIVE SumVolume(_)
SumVolume(order_list) ==
  IF order_list = <<>> THEN 0 ELSE order_list[1].volume + SumVolume(Tail(order_list))

\* a bug MinPrice could have: the price of the first order, unsorted
MinPriceFirst(order_list) == order_list[1].price

\* market.py:470 and 642  min(o['price'] for o in orders)
MinPrice(order_list) ==
  CHOOSE x \in {order_list[i].price : i \in DOMAIN order_list} :
    \A i \in DOMAIN order_list : x <= order_list[i].price

\* market.py:562 and 649  max(o['price'] for o in orders)
MaxPrice(order_list) ==
  CHOOSE x \in {order_list[i].price : i \in DOMAIN order_list} :
    \A i \in DOMAIN order_list : x >= order_list[i].price

\* market.py:353-388  the walk over both sorted books: sl, bl the lists, si, bi
\* the indexes (from 1), sr, br the remaining volumes
RECURSIVE Walk(_, _, _, _, _, _, _, _, _)
Walk(sl, bl, si, bi, sr, br, total_volume, total_buy_cost, total_sell_revenue) ==
  IF ~(si <= Len(sl) /\ bi <= Len(bl)) \/ sl[si].price >= bl[bi].price
  THEN [volume |-> total_volume, cost |-> total_buy_cost, revenue |-> total_sell_revenue]
  ELSE LET trade_vol == MatchedVolume(sr[si], br[bi])
           sr2 == [sr EXCEPT ![si] = @ - trade_vol]
           br2 == [br EXCEPT ![bi] = @ - trade_vol]
       IN Walk(sl, bl,
               IF sr2[si] <= 0 THEN si + 1 ELSE si,
               IF br2[bi] <= 0 THEN bi + 1 ELSE bi,
               sr2, br2,
               total_volume + trade_vol,
               total_buy_cost + sl[si].price * trade_vol,
               total_sell_revenue + bl[bi].price * trade_vol)

\* a bug InstantPair could have: the sales tax is left out of the fees
InstantPairBrokerOnly(sl, bl) ==
  LET ss == SortedBy(sl, 1)
      bs == SortedBy(bl, 0 - 1)
      w == Walk(ss, bs, 1, 1, [i \in DOMAIN ss |-> ss[i].volume],
                [i \in DOMAIN bs |-> bs[i].volume], 0, 0, 0)
  IN [skip |-> w.volume = 0, volume |-> w.volume,
      net |-> 9700 * w.revenue - 10300 * w.cost,
      buy_price |-> [num |-> w.cost, den |-> w.volume],
      sell_price |-> [num |-> w.revenue, den |-> w.volume]]

\* what a strategy computes for the sell orders sl of one station and the buy
\* orders bl of another: skip (an early `continue`), the volume, the net
\* profit in 1/Scale ISK, and the two prices of the candidate, each a
\* fraction num/den of whole ISK
\* market.py:353-397  instant: net = 0.934 revenue - 1.03 cost
InstantPair(sl, bl) ==
  LET ss == SortedBy(sl, 1)
      bs == SortedBy(bl, 0 - 1)
      w == Walk(ss, bs, 1, 1, [i \in DOMAIN ss |-> ss[i].volume],
                [i \in DOMAIN bs |-> bs[i].volume], 0, 0, 0)
  IN [skip |-> w.volume = 0, volume |-> w.volume,
      net |-> 9340 * w.revenue - 10300 * w.cost,
      buy_price |-> [num |-> w.cost, den |-> w.volume],
      sell_price |-> [num |-> w.revenue, den |-> w.volume]]

\* market.py:468-489  buy_orders: buy at 0.95 of the lowest sell, sell to the
\* best buy order: net = volume (0.934 best_buy - 1.03 * 0.95 min_sell)
BuyOrderPair(sl, bl) ==
  LET min_sell_price == MinPrice(sl)
      best_buy_price == SortedBy(bl, 0 - 1)[1].price
      volume == MatchedVolume(SumVolume(sl), SumVolume(bl))
  IN [skip |-> 95 * min_sell_price >= 100 * best_buy_price, volume |-> volume,
      net |-> volume * (9340 * best_buy_price - 9785 * min_sell_price),
      buy_price |-> [num |-> 95 * min_sell_price, den |-> 100],
      sell_price |-> [num |-> best_buy_price, den |-> 1]]

\* market.py:556-577  sell_orders: buy at the best sell, sell at 1.05 of the
\* highest buy: net = volume (0.934 * 1.05 max_buy - 1.03 best_sell)
SellOrderPair(sl, bl) ==
  LET best_sell_price == SortedBy(sl, 1)[1].price
      max_buy_price == MaxPrice(bl)
      volume == MatchedVolume(SumVolume(sl), SumVolume(bl))
  IN [skip |-> 100 * best_sell_price >= 105 * max_buy_price, volume |-> volume,
      net |-> volume * (9807 * max_buy_price - 10300 * best_sell_price),
      buy_price |-> [num |-> best_sell_price, den |-> 1],
      sell_price |-> [num |-> 105 * max_buy_price, den |-> 100]]

\* market.py:641-664  patient: buy at 0.95 of the lowest sell, sell at 1.05 of
\* the highest buy: net = volume (0.934 * 1.05 max_buy - 1.03 * 0.95 min_sell)
PatientPair(sl, bl) ==
  LET min_sell_price == MinPrice(sl)
      max_buy_price == MaxPrice(bl)
      volume == MatchedVolume(SumVolume(sl), SumVolume(bl))
  IN [skip |-> 95 * min_sell_price >= 105 * max_buy_price, volume |-> volume,
      net |-> volume * (9807 * max_buy_price - 9785 * min_sell_price),
      buy_price |-> [num |-> 95 * min_sell_price, den |-> 100],
      sell_price |-> [num |-> 105 * max_buy_price, den |-> 100]]

PairOf(mode, sl, bl) ==
  CASE mode = "instant" -> InstantPair(sl, bl)
    [] mode = "buy_orders" -> BuyOrderPair(sl, bl)
    [] mode = "sell_orders" -> SellOrderPair(sl, bl)
    [] mode = "patient" -> PatientPair(sl, bl)

\* market.py:348-349  `if sell_station == buy_station: continue`, which only
\* _find_instant_trades has
SameStationSkipped(mode, sell_station, buy_station) ==
  mode = "instant" /\ sell_station = buy_station

\* market.py:344-347  the (sell_station, buy_station) pairs in the order the
\* two nested loops visit them
StationPairs(sells, buys) ==
  LET sk == StationKeys(sells)
      bk == StationKeys(buys)
  IN [n \in 1..(Len(sk) * Len(bk)) |->
        <<sk[((n - 1) \div Len(bk)) + 1], bk[((n - 1) % Len(bk)) + 1]>>]

\* market.py:408-421  the entry of the trades dict
Candidate(sell_station, buy_station, pr) ==
  [origin_station |-> sell_station, dest_station |-> buy_station,
   buy_price |-> pr.buy_price, sell_price |-> pr.sell_price,
   volume |-> pr.volume, profit |-> IntOf(pr.net)]

\* market.py:406-408  `if key not in trades or net_profit > trades[key]['profit']`;
\* tr holds the dict's values in the order of its keys
DictPut(tr, cand, net) ==
  LET at == {i \in DOMAIN tr : /\ tr[i].origin_station = cand.origin_station
                               /\ tr[i].dest_station = cand.dest_station}
  IN IF at = {} THEN Append(tr, cand)
     ELSE IF net > Scale * tr[CHOOSE i \in at : TRUE].profit
          THEN [tr EXCEPT ![CHOOSE i \in at : TRUE] = cand]
     ELSE tr

\* the loops of a strategy after n pairs: the values of the trades dict
RECURSIVE Matched(_, _, _, _, _)
Matched(mode, sells, buys, threshold, n) ==
  IF n = 0 THEN <<>>
  ELSE LET tr == Matched(mode, sells, buys, threshold, n - 1)
           key == StationPairs(sells, buys)[n]
           pr == PairOf(mode, OrdersAt(sells, key[1]), OrdersAt(buys, key[2]))
       IN IF \/ SameStationSkipped(mode, key[1], key[2])
             \/ pr.skip
             \/ BelowThreshold(pr.net, threshold)
          THEN tr
          ELSE DictPut(tr, Candidate(key[1], key[2], pr), pr.net)

\* a bug Emitted could have: the orders are matched one sell order with one
\* buy order, without the grouping by station and without the trades dict
EmittedPerOrder(mode, sells, buys, threshold) ==
  LET pairs == [n \in 1..(Len(sells) * Len(buys)) |->
                  <<((n - 1) \div Len(buys)) + 1, ((n - 1) % Len(buys)) + 1>>]
      One(p) == PairOf(mode, <<sells[p[1]]>>, <<buys[p[2]]>>)
      kept == SelectSeq(pairs, LAMBDA p :
                ~(\/ SameStationSkipped(mode, sells[p[1]].station_id, buys[p[2]].station_id)
                  \/ One(p).skip
                  \/ BelowThreshold(One(p).net, threshold)))
  IN [m \in DOMAIN kept |->
        Candidate(sells[kept[m][1]].station_id, buys[kept[m][2]].station_id, One(kept[m]))]

\* market.py:303-304 and 423  `if not sell_orders or not buy_orders: return []`,
\* else list(trades.values()); the same in the other three strategies
Emitted(mode, sells, buys, threshold) ==
  IF sells = <<>> \/ buys = <<>> THEN <<>>
  ELSE Matched(mode, sells, buys, threshold, Len(StationPairs(sells, buys)))

(***************************************************************************)
(* Layer 6: the while loop of _find_instant_trades (market.py:353-388),    *)
(* one iteration at a time, for the sell orders of one station and the buy *)
(* orders of another.                                                      *)
(***************************************************************************)
\* most iterations a walk is followed for
MaxTurns == 6

\* the orders of one station: one or two
Books(sid) == UNION {[1..n -> [station_id : {sid}, price : Prices, volume : Volumes]] :
                     n \in 1..MaxOrders}

NoMatch == [vol |-> 0, sell_price |-> 0, buy_price |-> 0]

NoWalk == [pc |-> "none", sl |-> <<>>, bl |-> <<>>, si |-> 1, bi |-> 1,
           sr |-> <<>>, br |-> <<>>, total_volume |-> 0, total_buy_cost |-> 0,
           total_sell_revenue |-> 0, turns |-> 0, last |-> NoMatch]

WalkNone == walk = NoWalk

\* a bug Breaks could have: equal prices are still matched
BreaksAbove(sell_price, buy_price) == sell_price > buy_price

\* market.py:370  `if sell_price >= buy_price: break`
Breaks(sell_price, buy_price) == sell_price >= buy_price

\* a bug Exhausted could have: an order with nothing left is not passed
ExhaustedBelowZero(remaining) == remaining < 0

\* market.py:385 and 387  `if sell_remaining[sell_idx] <= 0`
Exhausted(remaining) == remaining <= 0

\* market.py:365  the loop condition (the indexes start at 1 here)
InBooks(w) == w.si <= Len(w.sl) /\ w.bi <= Len(w.bl)

\* market.py:336-363  the lists are sorted, the totals and the indexes reset,
\* the remaining volumes copied
WalkStart(sells, buys) ==
  /\ walk.pc = "none"
  /\ LET sl == SortedBy(sells, 1)
         bl == SortedBy(buys, 0 - 1)
     IN walk' = [NoWalk EXCEPT !.pc = "loop", !.sl = sl, !.bl = bl,
                               !.sr = [i \in DOMAIN sl |-> sl[i].volume],
                               !.br = [i \in DOMAIN bl |-> bl[i].volume]]
  /\ UNCHANGED <<dvars, mvars, svars, cvars, rvars>>

\* market.py:365-371  the loop ends: a list is used up, or the break
WalkEnd ==
  /\ walk.pc = "loop"
  /\ IF InBooks(walk) THEN Breaks(walk.sl[walk.si].price, walk.bl[walk.bi].price)
     ELSE TRUE
  /\ walk' = [walk EXCEPT !.pc = "done"]
  /\ UNCHANGED <<dvars, mvars, svars, cvars, rvars>>

\* market.py:366-388  one iteration that does not break
WalkStep ==
  /\ walk.pc = "loop"
  /\ walk.turns < MaxTurns
  /\ InBooks(walk)
  /\ ~Breaks(walk.sl[walk.si].price, walk.bl[walk.bi].price)
  /\ LET si == walk.si
         bi == walk.bi
         sell_price == walk.sl[si].price
         buy_price == walk.bl[bi].price
         trade_vol == MatchedVolume(walk.sr[si], walk.br[bi])
         moved == trade_vol > 0
         sr2 == IF moved THEN [walk.sr EXCEPT ![si] = @ - trade_vol] ELSE walk.sr
         br2 == IF moved THEN [walk.br EXCEPT ![bi] = @ - trade_vol] ELSE walk.br
     IN walk' = [walk EXCEPT
          !.total_volume = IF moved THEN @ + trade_vol ELSE @,
          !.total_buy_cost = IF moved THEN @ + sell_price * trade_vol ELSE @,
          !.total_sell_revenue = IF moved THEN @ + buy_price * trade_vol ELSE @,
          !.sr = sr2,
          !.br = br2,
          !.si = IF Exhausted(sr2[si]) THEN si + 1 ELSE si,
          !.bi = IF Exhausted(br2[bi]) THEN bi + 1 ELSE bi,
          !.turns = @ + 1,
          !.last = [vol |-> IF moved THEN trade_vol ELSE 0,
                    sell_price |-> sell_price, buy_price |-> buy_price]]
  /\ UNCHANGED <<dvars, mvars, svars, cvars, rvars>>

NextWalk ==
  \/ \E sells \in Books(1), buys \in Books(2) : WalkStart(sells, buys)
  \/ WalkStep
  \/ WalkEnd

\* a listing and a threshold, before find_trades
InitMatch ==
  /\ DistNew
  /\ ScanNew
  /\ SessionsNone
  /\ RowNone
  /\ WalkNone
  /\ sell_orders \in Listings
  /\ buy_orders \in Listings
  /\ min_profit \in Thresholds
  /\ trade_mode = "none"
  /\ potential_trades = <<>>

\* one sell order and one buy order, with the prices, volumes and thresholds
\* of small hand-made cases
SinglePrices == {10, 15}
SingleVolumes == {0, 50, 100}
SingleThresholds == {0, 100, 200}
SingleListings == [1..1 -> [station_id : Stations, price : SinglePrices, volume : SingleVolumes]]

InitSingle ==
  /\ DistNew
  /\ ScanNew
  /\ SessionsNone
  /\ RowNone
  /\ WalkNone
  /\ sell_orders \in SingleListings
  /\ buy_orders \in SingleListings
  /\ min_profit \in SingleThresholds
  /\ trade_mode = "none"
  /\ potential_trades = <<>>

\* market.py:230-244  find_trades applies the strategy of the trade mode
Strategy(mode) ==
  /\ trade_mode = "none"
  /\ trade_mode' = mode
  /\ potential_trades' = Emitted(mode, sell_orders, buy_orders, min_profit)
  /\ UNCHANGED <<sell_orders, buy_orders, min_profit>>

find_instant_trades == Strategy("instant") /\ UNCHANGED <<dvars, svars, cvars, rvars, wvars>>
find_buy_order_trades == Strategy("buy_orders") /\ UNCHANGED <<dvars, svars, cvars, rvars, wvars>>
find_sell_order_trades == Strategy("sell_orders") /\ UNCHANGED <<dvars, svars, cvars, rvars, wvars>>
find_patient_trades == Strategy("patient") /\ UNCHANGED <<dvars, svars, cvars, rvars, wvars>>

NextMatch ==
  \/ find_instant_trades
  \/ find_buy_order_trades
  \/ find_sell_order_trades
  \/ find_patient_trades

(***************************************************************************)
(* The specifications.                                                     *)
(***************************************************************************)
\* the program after construction
Init == DistNew /\ ScanNew /\ MatchNone /\ SessionsNone /\ RowNone /\ WalkNone

\* the distance resolver and the ranking step, with restarts of the process
Spec == Init /\ [][Next]_vars

\* one process lifetime: the same without a restart
SpecRun == Init /\ [][NextRun]_vars

\* the lookups of the two items of one batch
SpecBatch == Init /\ [][NextBatch]_vars

\* the scan orchestrator and the handlers
SpecScan == Init /\ [][NextScan]_vars

\* the connections of the items of one batch
SpecSessions == Init /\ [][NextSessions]_vars

\* the figures of the rows find_trades stores
SpecRows == Init /\ [][NextRows]_vars

\* the matching strategies applied to a listing
SpecMatch == InitMatch /\ [][NextMatch]_vars

\* the walk of the instant strategy, one iteration at a time
SpecWalk == Init /\ [][NextWalk]_vars

\* the matching strategies applied to one sell order and one buy order
SpecSingle == InitSingle /\ [][NextMatch]_vars

(***************************************************************************)
(* The claims about the distance resolver and the ranking step.            *)
(***************************************************************************)
ScanTasks == UNION {{calls[c].tasks[i] : i \in DOMAIN calls[c].tasks} : c \in Items}
\* the resolutions under way or just returned, in the scan's loop and in the
\* request thread
Resolutions == ScanTasks \cup (IF req.pc = "idle" THEN {} ELSE {req})

\* C1: find_trades never stores a trade for a candidate whose (origin,
\* destination) pair is unreachable or whose lookup failed: every stored trade
\* carries a jump count, never the "no route" marker, and none is stored for a
\* triple the route service has answered 404 for.
C1_RankingExclusion ==
  \A t \in trades : t.jumps >= 0 /\ ~t.known404

\* C2: once a remote lookup has answered 404 for a triple, every resolution of
\* that triple that begins later returns unreachable (None) and issues no
\* remote lookup.
C2_NegativeResultStable ==
  \A t \in Resolutions :
     t.late => /\ ~t.looked
               /\ t.pc = "ret" => t.res = PyNone

\* C3 as stated: of two successive resolutions of a triple with no restart in
\* between, the second issues no lookup when the first has issued one, and it
\* returns the value the first left in the cache.
C3_AtMostOneLookup ==
  \A t \in Resolutions :
     /\ t.prev.kind = "failed" => ~t.looked
     /\ (t.prev.kind = "cached" /\ t.pc = "ret") => t.res = t.prev.val

\* C3 as amended: when the first of two successive resolutions of a triple
\* ended with a result in the cache (a cache hit, or a 200 or 404 answer), the
\* second issues no remote lookup and returns that cached value,
\* get_jumps_sync reporting a cached -1 as None; a first resolution whose
\* lookup failed outright is not covered.
C3_NoLookupAfterResult ==
  /\ \A t \in ScanTasks :
        t.prev.kind = "cached" =>
           /\ ~t.looked
           /\ t.pc = "ret" => t.res = t.prev.val
  /\ (req.pc # "idle" /\ req.prev.kind = "cached") =>
        /\ ~req.looked
        /\ req.pc = "ret" => req.res = SyncFromMemory(req.prev.val)

C3_Witness ==
  \E t \in ScanTasks :
     /\ t.prev.kind = "cached" /\ t.pc = "ret" /\ t.pair[1] # t.pair[2]
     /\ t.res = t.prev.val /\ t.res = PyNone

\* C4: a remote lookup that fails outright writes neither cache: while the
\* last resolution of a triple to finish is one that failed, the triple is in
\* neither the in-memory cache nor the durable store, and a resolution that
\* begins then, and during which no other resolution caches the triple,
\* issues a remote lookup again (unless its read of the durable store raises).
C4_FailureNotCached ==
  /\ \A k \in Triples : hist[k].kind = "failed" => ~Cached(memory_cache, routes, k)
  /\ \A t \in Resolutions :
        (t.pfail /\ t.pc = "ret" /\ t.res # PyExc) => t.looked

C4_Witness ==
  \E t \in ScanTasks : t.pfail /\ t.pc = "ret" /\ t.looked /\ t.res \in JumpCounts

(***************************************************************************)
(* The claims about the matching strategies.                               *)
(***************************************************************************)
Candidates == {potential_trades[i] : i \in DOMAIN potential_trades}

\* C5: every candidate a strategy emits (instant, buy_orders, sell_orders,
\* patient) carries a profit greater than or equal to the minimum profit
\* threshold.
C5_ProfitAtLeastThreshold ==
  \A c \in Candidates : c.profit >= min_profit

C5_Witness ==
  /\ trade_mode = "patient" /\ min_profit = 2
  /\ \E c \in Candidates : c.profit = 3 /\ c.origin_station # c.dest_station
  /\ Len(potential_trades) < Len(StationPairs(sell_orders, buy_orders))

\* C6: the volume of every emitted candidate is at most the smaller of the
\* total sell volume at its origin station and the total buy volume at its
\* destination station.
C6_VolumeWithinBooks ==
  \A c \in Candidates :
     /\ c.volume <= SumVolume(OrdersAt(sell_orders, c.origin_station))
     /\ c.volume <= SumVolume(OrdersAt(buy_orders, c.dest_station))

C6_Witness ==
  /\ trade_mode = "instant"
  /\ \E c \in Candidates :
        /\ c.volume = 3
        /\ SumVolume(OrdersAt(sell_orders, c.origin_station)) = 4
        /\ SumVolume(OrdersAt(buy_orders, c.dest_station)) = 3

\* C7: a strategy emits at most one candidate per (origin station,
\* destination station) pair, and for every pair for which it computes a
\* candidate that passes its filters the emitted candidate of that pair has
\* the highest profit computed for the pair.
C7_BestCandidatePerPair ==
  trade_mode # "none" =>
    /\ \A i, j \in DOMAIN potential_trades :
          (/\ potential_trades[i].origin_station = potential_trades[j].origin_station
           /\ potential_trades[i].dest_station = potential_trades[j].dest_station) => i = j
    /\ \A n \in DOMAIN StationPairs(sell_orders, buy_orders) :
          LET key == StationPairs(sell_orders, buy_orders)[n]
              pr == PairOf(trade_mode, OrdersAt(sell_orders, key[1]),
                           OrdersAt(buy_orders, key[2]))
          IN (/\ ~SameStationSkipped(trade_mode, key[1], key[2])
              /\ ~pr.skip
              /\ ~BelowThreshold(pr.net, min_profit)) =>
                 \E c \in Candidates : /\ c.origin_station = key[1]
                                       /\ c.dest_station = key[2]
                                       /\ c.profit >= IntOf(pr.net)

C7_Witness ==
  /\ trade_mode = "sell_orders"
  /\ Len(sell_orders) = 2 /\ sell_orders[1].station_id = sell_orders[2].station_id
  /\ Len(buy_orders) = 2 /\ buy_orders[1].station_id = buy_orders[2].station_id
  /\ Len(potential_trades) = 1
  /\ potential_trades[1].origin_station # potential_trades[1].dest_station
  /\ potential_trades[1].profit > 0

\* C8: under every one of the four strategies no emitted candidate has the
\* same station as origin and as destination.
C8_NoSameLocation ==
  \A c \in Candidates : c.origin_station # c.dest_station

(***************************************************************************)
(* The claims about the scan orchestrator.                                 *)
(***************************************************************************)
\* C9: once stop has been requested while a run is scanning, that run starts
\* no further item batch, and no step of it removes a stored trade.
C9_StopStartsNoBatch ==
  [][\A r \in Runs :
        runs[r].stop =>
          /\ ~(runs[r].pc = "loop" /\ runs'[r].pc = "batch")
          /\ runs'[r] # runs[r] => trades \subseteq trades']_vars

\* C10: a start request made while a run that was started before has not
\* finished starts no second run: never two runs at the same time.
C10_OneRunAtATime ==
  Cardinality({r \in Runs : Alive(r)}) <= 1

\* C11: the status only takes the values idle, scanning, complete and error,
\* and it only moves from idle, complete or error to scanning and from
\* scanning to complete or error.
C11_StatusMachine ==
  [][/\ status' \in {"idle", "scanning", "complete", "error"}
     /\ status' # status =>
          \/ status \in {"idle", "complete", "error"} /\ status' = "scanning"
          \/ status = "scanning" /\ status' \in {"complete", "error"}]_vars

\* C12: an item whose listing lacks a field is skipped: while items of a
\* batch are in flight the end of an item never ends the run, and the status
\* is not left at scanning when no run is alive any more.
C12_MalformedItemSkipped ==
  [][/\ \A r \in Runs :
          (runs[r].pc = "batch" /\ runs[r].left > 0) => runs'[r].pc = "batch"
     /\ (\A r \in Runs : runs'[r].pc = "none") => status' # "scanning"]_vars

\* what the specification calls a valid configuration: a known trade mode
\* and a positive cargo capacity
ValidRequest(st) == st.trade_mode \in TradeModes /\ st.cargo_capacity > 0

\* C13: a start request with an unknown trade mode or a cargo capacity that is
\* not positive is rejected before the scan starts: the status is never
\* scanning under such settings.
C13_BadRequestRejected == status = "scanning" => ValidRequest(settings)

\* C14: a run ends in status error exactly when its configuration is invalid
\* or every distance lookup of one of its batches failed; otherwise it ends
\* in status complete.
C14_ErrorExactlyOnFailure ==
  [][\A r \in Runs :
       (Scanning(r) /\ runs'[r].pc = "none" /\ status' \in {"complete", "error"})
         => (status' = "error" <=> (~ValidRequest(settings) \/ runs[r].failed))]_vars

\* C15: the distance joined with a candidate is the result of the lookup for
\* the candidate's own pair, in whatever order the lookups of the batch
\* completed: every trade a join inserts carries the result of the task of
\* its (origin, dest).
C15_JoinedWithOwnPair ==
  [][\A t \in trades' \ trades :
       \E i \in DOMAIN calls[t.item].tasks :
         /\ calls[t.item].tasks[i].pair = <<t.origin, t.dest>>
         /\ calls[t.item].tasks[i].res = t.jumps]_vars

\* two candidates of one item were joined with different distances
C15_Witness ==
  \E t1, t2 \in trades :
    t1.item = t2.item /\ t1.n # t2.n /\ t1.dest # t2.dest /\ t1.jumps # t2.jumps

\* C17: within one find_trades call no two lookups are for the same pair: the
\* pairs are deduplicated before the tasks are made.
C17_PairsDeduplicated ==
  \A c \in Items : \A i, j \in DOMAIN calls[c].tasks :
    calls[c].tasks[i].pair = calls[c].tasks[j].pair => i = j

\* two candidates with the same pair, and one task, which asked the service
C17_Witness ==
  \E c \in Items :
    /\ Len(calls[c].cands) = 2
    /\ calls[c].cands[1] = calls[c].cands[2]
    /\ Len(calls[c].tasks) = 1
    /\ calls[c].tasks[1].looked

\* C16: the number of lookups outstanding at the route service never exceeds
\* the connector's limit of 20, counting the lookups of all items in flight.
C16_OutstandingWithinLimit == Outstanding(Flights) <= ConnectorLimit

\* the result a resolution of triple k took from a cache is the route
\* service's answer for k itself
OwnAnswer(k, res) == k \in DOMAIN esi /\ SyncFromMemory(res) = esi[k]

FromCache(t) == t.pc = "ret" /\ ~t.looked /\ t.pair[1] # t.pair[2] /\ t.res # PyExc

\* C18: a result cached under one profile is never returned for a query
\* under another one, and only the default profile reads and writes the
\* durable store: every entry of the memory cache and every result taken
\* from a cache is the service's answer for the very triple, and every stored
\* route is the answer for the pair under the default profile.
C18_ProfilesKeptApart ==
  /\ \A k \in DOMAIN memory_cache : OwnAnswer(k, memory_cache[k])
  /\ \A p \in DOMAIN routes : OwnAnswer(Key(p, "secure"), routes[p])
  /\ \A t \in ScanTasks : FromCache(t) => OwnAnswer(Key(t.pair, route_flag), t.res)
  /\ FromCache(req) => OwnAnswer(Key(req.pair, req.flag), req.res)

\* a pair is cached with different results under two profiles, one of them
\* stored, and a query under the other profile was answered from the cache
C18_Witness ==
  \E p \in DOMAIN routes : \E f \in RouteFlags \ {"secure"} :
    /\ Key(p, f) \in DOMAIN memory_cache
    /\ Key(p, "secure") \in DOMAIN memory_cache
    /\ SyncFromMemory(memory_cache[Key(p, f)]) # SyncFromMemory(memory_cache[Key(p, "secure")])
    /\ FromCache(req) /\ req.pair = p /\ req.flag = f

\* a resolution under the default profile of a pair that was stored when the
\* process started: it issues no lookup, and what it returns is the answer
\* the service gave when the pair was resolved
AnsweredFromPreload(t) ==
  /\ t.pair \in preloaded
  /\ t.pc # "idle"
  => /\ ~t.looked
     /\ t.pc = "ret" => t.res = esi[Key(t.pair, "secure")]

\* C19: after a restart and the preload, every pair that was resolved under
\* the default profile before the restart, to a jump count or to "no route",
\* is answered with the same result and without a remote lookup.
C19_PreloadAnswers ==
  /\ route_flag = "secure" => \A t \in ScanTasks : AnsweredFromPreload(t)
  /\ req.flag = "secure" => AnsweredFromPreload(req)

\* after a restart a request for a pair that had no route was answered
C19_Witness ==
  /\ req.pc = "ret" /\ req.flag = "secure"
  /\ req.pair \in preloaded
  /\ routes[req.pair] = DbNoRoute
  /\ req.res = PyNone

\* the items run r has finished: whole batches, the last one cut at n
Finished(run) == IF run.i < run.n THEN run.i ELSE run.n

InLoop(run) == run.pc \in {"loop", "batch"}

\* C20: within one scan run the progress never decreases, the counter of
\* scanned items never exceeds the total, and it counts every finished item
\* exactly once.
C20_ProgressMonotone ==
  [][\A r \in Runs :
       InLoop(runs[r]) /\ InLoop(runs'[r]) =>
         /\ progress' >= progress
         /\ scanned_items' <= total_items'
         /\ runs'[r].pc = "loop" => scanned_items' = Finished(runs'[r])]_vars

\* the case of C21: the instant strategy was applied to one sell order and
\* one buy order at different stations, the sell price below the buy price
SingleCase ==
  /\ trade_mode = "instant"
  /\ Len(sell_orders) = 1 /\ Len(buy_orders) = 1
  /\ sell_orders[1].station_id # buy_orders[1].station_id
  /\ sell_orders[1].price < buy_orders[1].price

SingleVolume ==
  IF sell_orders[1].volume < buy_orders[1].volume
  THEN sell_orders[1].volume ELSE buy_orders[1].volume

\* (pb - ps) v - 3% of ps v - 6.6% of pb v, in 1/Scale ISK
SingleNet ==
  LET ps == sell_orders[1].price
      pb == buy_orders[1].price
      v == SingleVolume
  IN Scale * (pb - ps) * v - 300 * ps * v - 660 * pb * v

\* C21 as the specification has it: one candidate with volume min(qs, qb),
\* emitted exactly when the net profit is at least min_profit.
C21_SingleAsStated ==
  SingleCase =>
    /\ Len(potential_trades) = 1 <=> SingleNet >= Scale * min_profit
    /\ \A c \in Candidates : c.volume = SingleVolume

\* C21, amended: the candidate is emitted exactly when the volume
\* min(qs, qb) is positive and the net profit is at least min_profit; it
\* is the only one, it goes from the sell order's station to the buy order's,
\* and it carries that volume and the net profit truncated to whole ISK.
C21_SingleCandidate ==
  SingleCase =>
    /\ Len(potential_trades) <= 1
    /\ Len(potential_trades) = 1 <=>
          (SingleVolume > 0 /\ SingleNet >= Scale * min_profit)
    /\ \A c \in Candidates :
          /\ c.origin_station = sell_orders[1].station_id
          /\ c.dest_station = buy_orders[1].station_id
          /\ c.volume = SingleVolume
          /\ Scale * c.profit <= SingleNet /\ SingleNet < Scale * (c.profit + 1)

\* 100 units at 10 and a buy order for 50 at 15, min_profit 100: kept, with
\* volume 50 and the net profit 185.5 stored as 185
C21_Witness ==
  /\ SingleCase
  /\ sell_orders[1].price = 10 /\ sell_orders[1].volume = 100
  /\ buy_orders[1].price = 15 /\ buy_orders[1].volume = 50
  /\ min_profit = 100
  /\ SingleNet = 1855000
  /\ \E c \in Candidates : c.volume = 50 /\ c.profit = 185

\* C22: for every stored trade, trips is the ceiling of the matched volume
\* times the unit volume divided by the cargo capacity (the least whole
\* number of loads that is not below the quotient), the total travel cost is
\* jumps * 2 * trips, and the profit per jump is the net profit divided by the
\* travel cost when that is greater than zero and the net profit otherwise.
C22_TripFigures ==
  trade_row.stored =>
    LET t == trade_row IN
    /\ t.volume_m3 = t.volume * t.item_volume
    /\ t.cargo > 0 =>
          (t.trips - 1) * t.cargo < t.volume_m3 /\ t.volume_m3 <= t.trips * t.cargo
    /\ t.cargo < 0 =>
          (t.trips - 1) * t.cargo > t.volume_m3 /\ t.volume_m3 >= t.trips * t.cargo
    /\ t.total_jumps = t.jumps * 2 * t.trips
    /\ t.profit_per_jump.num = t.profit
    /\ t.profit_per_jump.den = (IF t.total_jumps > 0 THEN t.total_jumps ELSE 1)
    /\ t.jumps = 0 => t.profit_per_jump.den = 1

\* 1000 units of 2 m3 with a cargo capacity of 500 over 3 jumps: 4 trips and
\* a travel cost of 24
C22_Witness ==
  /\ trade_row.stored
  /\ trade_row.volume = 1000 /\ trade_row.item_volume = 2
  /\ trade_row.cargo = 500 /\ trade_row.jumps = 3
  /\ trade_row.trips = 4 /\ trade_row.total_jumps = 24
  /\ trade_row.profit_per_jump = [num |-> 185, den |-> 24]

\* the volume on offer in the listing order_list at station sid
RECURSIVE VolumeOver(_, _)
VolumeOver(order_list, I) ==
  IF I = {} THEN 0
  ELSE LET i == CHOOSE x \in I : TRUE
       IN order_list[i].volume + VolumeOver(order_list, I \ {i})

At(order_list, sid) == {i \in DOMAIN order_list : order_list[i].station_id = sid}

Supply(c) == VolumeOver(sell_orders, At(sell_orders, c.origin_station))
Demand(c) == VolumeOver(buy_orders, At(buy_orders, c.dest_station))
SupplyOrDemand(c) == IF Supply(c) < Demand(c) THEN Supply(c) ELSE Demand(c)

\* every sell order at the origin is priced below every buy order at the
\* destination
AllBelow(c) ==
  \A i \in At(sell_orders, c.origin_station), j \in At(buy_orders, c.dest_station) :
    sell_orders[i].price < buy_orders[j].price

\* C23 as the specification has it: under every strategy the matched volume
\* of a candidate is the minimum of the supply at its origin and the demand
\* at its destination.
C23_VolumeAsStated == \A c \in Candidates : c.volume = SupplyOrDemand(c)

\* C23, amended: under the three strategies that place orders the matched
\* volume is the minimum of the supply at the origin and the demand at the
\* destination; under the instant strategy it is the volume the walk
\* matched, which is positive and at most that minimum, and equal to it
\* when every sell order at the origin is priced below every buy order at
\* the destination.
C23_MatchedVolume ==
  \A c \in Candidates :
    /\ trade_mode \in {"buy_orders", "sell_orders", "patient"} =>
          c.volume = SupplyOrDemand(c)
    /\ trade_mode = "instant" =>
          /\ 0 < c.volume /\ c.volume <= SupplyOrDemand(c)
          /\ AllBelow(c) => c.volume = SupplyOrDemand(c)

\* an instant candidate whose walk stopped at the prices, below the minimum
\* of supply and demand
C23_Witness ==
  /\ trade_mode = "instant"
  /\ \E c \in Candidates : c.volume = 1 /\ Supply(c) = 4 /\ Demand(c) = 3

\* the lowest sell price at the origin of c and the highest buy price at its
\* destination
LowestSell(c) ==
  CHOOSE p \in {sell_orders[i].price : i \in At(sell_orders, c.origin_station)} :
    \A i \in At(sell_orders, c.origin_station) : p <= sell_orders[i].price

HighestBuy(c) ==
  CHOOSE p \in {buy_orders[i].price : i \in At(buy_orders, c.dest_station)} :
    \A i \in At(buy_orders, c.dest_station) : p >= buy_orders[i].price

\* the fraction price is percent % of whole
IsPercentOf(price, percent, whole) == price.num * 100 = percent * whole * price.den

\* C24: a place-buy candidate buys at 95% of the lowest sell price at the
\* origin and sells at the highest buy price at the destination; a place-sell
\* candidate buys at the lowest sell price and sells at 105% of the highest
\* buy price; a patient candidate uses both synthesized prices; and in each
\* mode the buy price of a candidate is strictly below its sell price.
C24_SynthesizedPrices ==
  \A c \in Candidates :
    /\ trade_mode = "buy_orders" =>
          /\ IsPercentOf(c.buy_price, 95, LowestSell(c))
          /\ IsPercentOf(c.sell_price, 100, HighestBuy(c))
    /\ trade_mode = "sell_orders" =>
          /\ IsPercentOf(c.buy_price, 100, LowestSell(c))
          /\ IsPercentOf(c.sell_price, 105, HighestBuy(c))
    /\ trade_mode = "patient" =>
          /\ IsPercentOf(c.buy_price, 95, LowestSell(c))
          /\ IsPercentOf(c.sell_price, 105, HighestBuy(c))
    /\ c.buy_price.den > 0 /\ c.sell_price.den > 0
    /\ c.buy_price.num * c.sell_price.den < c.sell_price.num * c.buy_price.den

\* a patient candidate between two stations with two sell orders and two buy
\* orders of different prices each, the dearer sell order and the cheaper
\* buy order first
C24_Witness ==
  /\ trade_mode = "patient"
  /\ Len(sell_orders) = 2 /\ Len(buy_orders) = 2
  /\ sell_orders[1].price = 1000 /\ sell_orders[2].price = 999
  /\ buy_orders[1].price = 1000 /\ buy_orders[2].price = 1200
  /\ \E c \in Candidates :
        /\ c.origin_station # c.dest_station
        /\ Cardinality(At(sell_orders, c.origin_station)) = 2
        /\ Cardinality(At(buy_orders, c.dest_station)) = 2
        /\ c.buy_price = [num |-> 95 * 999, den |-> 100]
        /\ c.sell_price = [num |-> 105 * 1200, den |-> 100]

(***************************************************************************)
(* The claims about the walk of the instant strategy.                      *)
(***************************************************************************)
\* the volume the walk has taken from the first n orders of a list
RECURSIVE Taken(_, _, _)
Taken(order_list, remaining, n) ==
  IF n = 0 THEN 0
  ELSE (order_list[n].volume - remaining[n]) + Taken(order_list, remaining, n - 1)

\* the orders before the index are used up, the ones after it untouched, and
\* none has given more than it had
InOrder(order_list, remaining, idx) ==
  \A i \in DOMAIN order_list :
    /\ 0 <= remaining[i] /\ remaining[i] <= order_list[i].volume
    /\ i < idx => remaining[i] = 0
    /\ i > idx => remaining[i] = order_list[i].volume

\* C26: in the instant walk for one location pair every matched unit pairs a
\* sell listing with a buy listing of strictly higher price, no listing
\* gives more than its remaining volume, the listings are consumed in price
\* order (sells ascending, buys descending), and the walk stops only when
\* one side is exhausted or the current sell price is greater than or equal
\* to the current buy price; its totals are the ones the strategy uses.
C26_WalkInPriceOrder ==
  walk.pc # "none" =>
    /\ walk.last.vol > 0 => walk.last.sell_price < walk.last.buy_price
    /\ \A i, j \in DOMAIN walk.sl : i < j => walk.sl[i].price <= walk.sl[j].price
    /\ \A i, j \in DOMAIN walk.bl : i < j => walk.bl[i].price >= walk.bl[j].price
    /\ InOrder(walk.sl, walk.sr, walk.si)
    /\ InOrder(walk.bl, walk.br, walk.bi)
    /\ walk.total_volume = Taken(walk.sl, walk.sr, Len(walk.sl))
    /\ walk.total_volume = Taken(walk.bl, walk.br, Len(walk.bl))
    /\ walk.pc = "done" =>
          /\ \/ walk.si > Len(walk.sl)
             \/ walk.bi > Len(walk.bl)
             \/ walk.sl[walk.si].price >= walk.bl[walk.bi].price
          /\ [volume |-> walk.total_volume, cost |-> walk.total_buy_cost,
              revenue |-> walk.total_sell_revenue]
               = Walk(walk.sl, walk.bl, 1, 1,
                      [i \in DOMAIN walk.sl |-> walk.sl[i].volume],
                      [i \in DOMAIN walk.bl |-> walk.bl[i].volume], 0, 0, 0)

\* a walk that stopped at the prices, with a buy order partly filled and a
\* sell order untouched
C26_Witness ==
  /\ walk.pc = "done"
  /\ InBooks(walk)
  /\ walk.si = 2 /\ walk.bi = 1
  /\ walk.total_volume = 1
  /\ walk.br[1] = 2
  /\ walk.sr[2] = 3

\* C29: the instant walk terminates for every finite pair of order books,
\* also with listings of zero volume: every iteration that does not end the
\* loop advances at least one of the two indexes, so the iterations never
\* outnumber the listings passed.
C29_WalkAdvances ==
  [][/\ (walk.pc = "loop" /\ walk'.pc = "loop") =>
          (walk'.si > walk.si \/ walk'.bi > walk.bi)
     /\ walk'.turns <= (walk'.si - 1) + (walk'.bi - 1)
     /\ walk'.si <= Len(walk'.sl) + 1 /\ walk'.bi <= Len(walk'.bl) + 1]_vars

\* a walk over listings without volume: two iterations that matched nothing,
\* and the loop has ended
C29_Witness ==
  /\ walk.pc = "done"
  /\ walk.turns = 2
  /\ walk.total_volume = 0
  /\ \E i \in DOMAIN walk.sl : walk.sl[i].volume = 0

(***************************************************************************)
(* More claims about the distance resolver.                                *)
(***************************************************************************)
\* a jump count that is not negative, or None
JumpsOrNone(v) == v = PyNone \/ v >= 0

\* C28: get_jumps_async never returns a negative number and never stores one
\* in the in-memory cache: every value in memory and every result of a scan's
\* lookup task is a jump count that is not negative, or None (a raised
\* exception is no result).
C28_NoNegativeJumps ==
  /\ \A k \in DOMAIN memory_cache : JumpsOrNone(memory_cache[k])
  /\ \A t \in ScanTasks : (t.pc = "ret" /\ t.res # PyExc) => JumpsOrNone(t.res)

(***************************************************************************)
(* More claims about the scan orchestrator.                                *)
(***************************************************************************)
\* C30: when a run completes, the trade store holds the trades of that run
\* and of no other, and while a run is in progress no request and no other
\* run removes a trade from the store.
C30_TradesOfCompletedRun ==
  [][/\ \A r \in Runs :
          (Scanning(r) /\ runs'[r].pc = "none" /\ status' = "complete")
            => \A t \in trades' : t.run = r
     /\ (\E r \in Runs : Scanning(r)) => trades \subseteq trades']_vars

(***************************************************************************)
(* Claims about the lookups of one batch.                                  *)
(***************************************************************************)
\* C25: when the lookup of one pair of a find_trades call fails or raises,
\* the results of the other pairs are still returned: at the join, every
\* candidate whose own pair's lookup returned a jump count is stored with
\* that count, whatever the other lookups of the call returned.
C25_OthersStillStored ==
  [][\A c \in BatchItems :
       (calls[c].pc = "gather" /\ calls'[c].pc = "done")
         => \A n \in DOMAIN calls[c].cands : \A i \in DOMAIN calls[c].tasks :
              (calls[c].tasks[i].pair = calls[c].cands[n] /\ JoinKeeps(calls[c].tasks[i].res))
                => \E t \in trades' :
                     /\ t.item = c /\ t.n = n
                     /\ <<t.origin, t.dest>> = calls[c].cands[n]
                     /\ t.jumps = calls[c].tasks[i].res]_vars

\* item 1 alone has run: its lookup of (1, 2) failed, and its candidate for
\* (1, 3) is stored with the jump count its own lookup returned
C25_Witness ==
  /\ calls[1].pc = "done" /\ calls[2].pc = "idle"
  /\ hist[<<1, 2, "secure">>].kind = "failed"
  /\ \A t \in trades : <<t.origin, t.dest>> # <<1, 2>>
  /\ \E t \in trades : t.item = 1 /\ <<t.origin, t.dest>> = <<1, 3>> /\ t.jumps \in JumpCounts

\* C27: two items of one batch that need the same uncached triple issue at
\* most one remote lookup for it: no two lookup tasks of different items wait
\* for the remote answer of the same pair at the same time.
C27_OneLookupPerTriple ==
  \A c \in BatchItems, d \in BatchItems :
    \A i \in DOMAIN calls[c].tasks, j \in DOMAIN calls[d].tasks :
      (c # d /\ calls[c].tasks[i].pair = calls[d].tasks[j].pair)
        => ~(calls[c].tasks[i].pc = "pending" /\ calls[d].tasks[j].pc = "pending")

====
